---------------------------- MODULE Spec2Model ----------------------------
(***************************************************************************)
(* A model of corostc: the CorosTCClient session object (connect,          *)
(* disconnect, _authenticate, the envelope check), the list_activities     *)
(* generator, the transfer operations and the two command-line front-ends. *)
(* The vendor's API is the environment: every response it may give is      *)
(* drawn from a small set, and its activity list may change between two    *)
(* requests.                                                               *)
(***************************************************************************)
EXTENDS Integers, Sequences, FiniteSets, TLC

(***************************************************************************)
(* Bounds of the model.                                                    *)
(***************************************************************************)
MaxConnects == 3
MaxN == 3
MaxB == 2

(***************************************************************************)
(* Python values.  None is a sentinel of the string-typed optionals; the   *)
(* session attribute holds a context id, 0 standing for None.              *)
(***************************************************************************)
None == "None"
NoSession == 0
Truthy(s) == s # None /\ s # ""

Lower(s) == CASE s = "USER" -> "user"
              [] OTHER -> s

Md5Hex(p) == <<"md5hex", p>>

(***************************************************************************)
(* Exceptions.  text is a tuple so that every error has one shape.         *)
(***************************************************************************)
NoErr == [type |-> "none", text |-> <<>>]
Err(type, text) == [type |-> type, text |-> text]
AuthError == Err("RuntimeError", <<"Cannot authenticate without username and password">>)
ApiError(message, result) == Err("RuntimeError", <<message, "result code", result>>)

(***************************************************************************)
(* HTTP responses.  t = "exc": the transport raised while the request was  *)
(* sent (no response).  Otherwise a status and a body; a body is either    *)
(* not JSON, or the vendor's envelope {result, message, data}.  An absent  *)
(* key reads as None (dict.get).                                           *)
(***************************************************************************)
NoData == [k |-> "none"]
Body(json, result, message, data) ==
    [json |-> json, result |-> result, message |-> message, data |-> data]
TransportExc == [t |-> "exc", status |-> 0, body |-> Body(FALSE, None, None, NoData)]
HttpResp(status, body) == [t |-> "resp", status |-> status, body |-> body]
Failures ==
    { TransportExc,
      HttpResp(500, Body(FALSE, None, None, NoData)),
      HttpResp(200, Body(FALSE, None, None, NoData)),
      HttpResp(200, Body(TRUE, "1001", "denied", NoData)),
      HttpResp(200, Body(TRUE, None, "odd", NoData)) }
Ok(data) == HttpResp(200, Body(TRUE, "0000", "OK", data))
Responses(datas) == Failures \cup { Ok(d) : d \in datas }

raise_for_status(r) ==
    IF r.status >= 400 /\ r.status < 600 THEN Err("HTTPError", <<r.status>>) ELSE NoErr

coros_raise_or_json_nocode(r) ==
    IF raise_for_status(r) # NoErr THEN [raised |-> raise_for_status(r), j |-> r.body]
    ELSE IF ~r.body.json THEN [raised |-> Err("JSONDecodeError", <<>>), j |-> r.body]
    ELSE IF r.body.result # "0000"
         THEN [raised |-> ApiError(r.body.message, None), j |-> r.body]
    ELSE [raised |-> NoErr, j |-> r.body]

coros_raise_or_json(r) ==
    IF raise_for_status(r) # NoErr THEN [raised |-> raise_for_status(r), j |-> r.body]
    ELSE IF ~r.body.json THEN [raised |-> Err("JSONDecodeError", <<>>), j |-> r.body]
    ELSE IF r.body.result # "0000"
         THEN [raised |-> ApiError(r.body.message, r.body.result), j |-> r.body]
    ELSE [raised |-> NoErr, j |-> r.body]

(***************************************************************************)
(* One request as it went over the wire: the endpoint, the accessToken     *)
(* header it carried, the response, and what the envelope check made of    *)
(* the response ("unchecked" where the code runs no envelope check).       *)
(***************************************************************************)
Unchecked == Err("unchecked", <<>>)
Req(ep, tok, params, resp, chk) ==
    [ep |-> ep, tok |-> tok, params |-> params, resp |-> resp, chk |-> chk]
Checked(ep, tok, params, resp) ==
    Req(ep, tok, params, resp,
        IF resp.t = "exc" THEN Unchecked ELSE coros_raise_or_json(resp).raised)

VARIABLES
    username, password, accesstoken, session, hdr, user_id, nickname,
    live, nsess,
    ret, wire,
    vendor, gen, yielded, glog, snap, stable,
    fitparse, up, cli

clientVars == <<username, password, accesstoken, session, hdr, user_id, nickname>>
sessVars == <<live, nsess>>
callVars == <<ret, wire>>
listVars == <<gen, yielded, glog, snap, stable>>
upVars == <<fitparse, up, cli>>
vars == <<clientVars, sessVars, callVars, vendor, listVars, upVars>>

Usernames == {None, "user", "USER"}
Passwords == {None, "pw"}
Tokens == {None, "", "T0"}
Emails == {"user", "other"}

Account(tok, email) ==
    [accessToken |-> tok, userId |-> "u7", nickname |-> "nick", email |-> email]

(***************************************************************************)
(* ret is how the last call of a public method ended: the exception it     *)
(* raised, or NoErr and the value it returned.  A value is a tuple; the    *)
(* empty tuple is None.                                                    *)
(***************************************************************************)
RetNone == <<>>
Returned(op, value) == [op |-> op, raised |-> NoErr, value |-> value]
Raised(op, err) == [op |-> op, raised |-> err, value |-> RetNone]

(***************************************************************************)
(* CorosTCClient.__init__                                                  *)
(***************************************************************************)
InitClient ==
    /\ username \in Usernames
    /\ password \in Passwords
    /\ accesstoken \in Tokens
    /\ session = NoSession
    /\ hdr = None
    /\ user_id = None
    /\ nickname = None
    /\ live = {}
    /\ nsess = 0
    /\ ret = Returned("__init__", RetNone)
    /\ wire = <<>>

(***************************************************************************)
(* The vendor's activities.  Act(id) is the raw record the activity-query  *)
(* endpoint returns for activity id; the attributes are fixed per id and   *)
(* chosen so that a known and an unknown sport type, both values of a flag *)
(* and positive and negative time zones occur.                             *)
(***************************************************************************)
FirstDay == [ts |-> 1704067200, day |-> 20240101]
DaySecs == 86400
Ids == 1..MaxN
Act(id) ==
    [labelId |-> id,
     name |-> <<"activity", id>>,
     sportType |-> IF id % 3 = 2 THEN 999 ELSE 100 * id,
     date |-> FirstDay.day + id,
     startTimezone |-> IF id % 2 = 1 THEN 5 ELSE -3,
     endTimezone |-> IF id % 2 = 1 THEN 5 ELSE -3,
     startTime |-> FirstDay.ts + DaySecs * id + 43200,
     endTime |-> FirstDay.ts + DaySecs * id + 46800,
     hasMessage |-> id % 2,
     isShowMs |-> 1,
     imported |-> 1]

SportCodes ==
    {100, 101, 103, 104, 105, 200, 201, 300, 301, 402, 400, 401, 500, 501, 502, 503,
     706, 705, 700, 701, 702, 704, 900}

StartsWithHasOrIs(k) == k \in {"hasMessage", "isShowMs"}
Bool(v) == v # 0

(***************************************************************************)
(* The body of list_activities' inner loop: the derived keys are added to  *)
(* the raw record, and every key that starts with has or is becomes a      *)
(* boolean.  A timezone is its offset in minutes, an aware datetime its    *)
(* timestamp with that offset.                                             *)
(***************************************************************************)
Normalize(a) ==
    LET a1 == IF a.sportType \in SportCodes
              THEN ("_sportType" :> <<"CorosSportType", a.sportType>>) @@ a
              ELSE a
        a2 == ("_date" :> <<a.date \div 10000, (a.date \div 100) % 100, a.date % 100>>)
              @@ ("_startTimezone" :> a.startTimezone * 15)
              @@ ("_endTimezone" :> a.endTimezone * 15)
              @@ ("_startTime" :> [ts |-> a.startTime, utcoffset |-> a.startTimezone * 15])
              @@ ("_endTime" :> [ts |-> a.endTime, utcoffset |-> a.endTimezone * 15])
              @@ a1
    IN [k \in DOMAIN a2 |-> IF StartsWithHasOrIs(k) THEN Bool(a2[k]) ELSE a2[k]]

(***************************************************************************)
(* The vendor holds a list of activity ids, the newest (highest) first.    *)
(* GET /activity/query?size&pageNumber&startDay&endDay answers with the    *)
(* number of activities in the day window and the records of the page.     *)
(* A day is a yyyymmdd number; NoDay is a bound left out (None).           *)
(***************************************************************************)
NoDay == 0
InWindow(id, w) ==
    /\ (w[1] = NoDay \/ Act(id).date >= w[1])
    /\ (w[2] = NoDay \/ Act(id).date <= w[2])
Matching(v, w) == SelectSeq(v, LAMBDA id : InWindow(id, w))
Min(a, b) == IF a <= b THEN a ELSE b
PageData(v, size, pageNumber, w) ==
    LET m == Matching(v, w)
    IN [count |-> Len(m),
        dataList |-> [k \in 1..(Min(size * pageNumber, Len(m)) - Min(size * (pageNumber - 1), Len(m)))
                        |-> Act(m[size * (pageNumber - 1) + k])]]

RECURSIVE Newest(_)
Newest(S) ==
    IF S = {} THEN <<>>
    ELSE LET x == CHOOSE y \in S : \A z \in S : z <= y
         IN <<x>> \o Newest(S \ {x})
Vendors == { Newest(S) : S \in SUBSET Ids }

(***************************************************************************)
(* CorosTCClient._authenticate, on the client fields c, with rq the        *)
(* vendor's answer to the identity query and rl its answer to the login.   *)
(* The result is the fields as the method leaves them, the exception it    *)
(* raised (NoErr if none) and the requests it sent.                        *)
(***************************************************************************)
AuthTokenStep(c, rq) ==
    IF ~Truthy(c.accesstoken)
    THEN [c |-> c, raised |-> NoErr, bound |-> FALSE, j |-> rq.body, wire |-> <<>>]
    ELSE LET c1 == [c EXCEPT !.hdr = c.accesstoken]
             w == <<Checked("/account/query", c1.hdr, <<>>, rq)>>
         IN IF rq.t = "exc"
            THEN [c |-> c1, raised |-> Err("ConnectionError", <<>>), bound |-> FALSE,
                  j |-> rq.body, wire |-> w]
            ELSE IF coros_raise_or_json(rq).raised # NoErr
            THEN [c |-> [c1 EXCEPT !.accesstoken = None], raised |-> NoErr,
                  bound |-> FALSE, j |-> rq.body, wire |-> w]
            ELSE [c |-> c1, raised |-> NoErr, bound |-> TRUE,
                  j |-> coros_raise_or_json(rq).j, wire |-> w]

AuthLoginStep(s, rl) ==
    IF s.raised # NoErr \/ s.c.accesstoken # None THEN s
    ELSE IF s.c.username = None \/ s.c.password = None
    THEN [s EXCEPT !.raised = AuthError]
    ELSE LET w == Append(s.wire,
                     Checked("/account/login", s.c.hdr,
                             <<s.c.username, Md5Hex(s.c.password), 2>>, rl))
         IN IF rl.t = "exc"
            THEN [s EXCEPT !.raised = Err("ConnectionError", <<>>), !.wire = w]
            ELSE IF coros_raise_or_json(rl).raised # NoErr
            THEN [s EXCEPT !.raised = coros_raise_or_json(rl).raised, !.wire = w]
            ELSE [s EXCEPT !.bound = TRUE, !.j = coros_raise_or_json(rl).j, !.wire = w]

AuthFinish(s) ==
    IF s.raised # NoErr THEN s
    ELSE IF ~s.bound THEN [s EXCEPT !.raised = Err("UnboundLocalError", <<"j">>)]
    ELSE LET data == s.j.data
             c2 == [s.c EXCEPT !.hdr = data.accessToken,
                               !.accesstoken = data.accessToken,
                               !.user_id = data.userId,
                               !.nickname = data.nickname]
         IN IF Truthy(s.c.username) /\ Lower(s.c.username) # Lower(data.email)
            THEN [s EXCEPT !.c = c2, !.raised = Err("AssertionError", <<>>)]
            ELSE [s EXCEPT !.c = [c2 EXCEPT !.username = data.email]]

authenticate(c, rq, rl) == AuthFinish(AuthLoginStep(AuthTokenStep(c, rq), rl))

Client ==
    [username |-> username, password |-> password, accesstoken |-> accesstoken,
     hdr |-> hdr, user_id |-> user_id, nickname |-> nickname]

(***************************************************************************)
(* CorosTCClient.connect: a new connection context replaces whatever the   *)
(* session attribute held, then _authenticate runs on it.                  *)
(***************************************************************************)
Connect ==
    /\ nsess < MaxConnects
    /\ \E rq \in Responses({Account(accesstoken, e) : e \in Emails}),
          rl \in Responses({Account("T1", e) : e \in Emails}) :
         LET a == authenticate([Client EXCEPT !.hdr = None], rq, rl)
         IN /\ nsess' = nsess + 1
            /\ session' = nsess + 1
            /\ live' = live \cup {nsess + 1}
            /\ username' = a.c.username
            /\ password' = a.c.password
            /\ accesstoken' = a.c.accesstoken
            /\ hdr' = a.c.hdr
            /\ user_id' = a.c.user_id
            /\ nickname' = a.c.nickname
            /\ wire' = a.wire
            /\ ret' = IF a.raised = NoErr THEN Returned("connect", RetNone)
                      ELSE Raised("connect", a.raised)

(***************************************************************************)
(* CorosTCClient.disconnect                                                *)
(***************************************************************************)
Disconnect ==
    /\ IF session # NoSession
       THEN /\ live' = live \ {session}
            /\ session' = NoSession
            /\ hdr' = None
       ELSE UNCHANGED <<live, session, hdr>>
    /\ ret' = Returned("disconnect", RetNone)
    /\ wire' = <<>>
    /\ UNCHANGED <<username, password, accesstoken, user_id, nickname, nsess>>

(***************************************************************************)
(* CorosTCClient.list_activities is a generator.  gen is its frame: pc is  *)
(* where it stands ("fetch": at the top of the page loop; "loop": in the   *)
(* for loop over the page's dataList, before record i; "done": returned;   *)
(* "raised": ended by the exception err; "none": no generator), and        *)
(* batch_size, page, total (NoTotal for None) and j are its locals.        *)
(* owner is who consumes it.  yielded is what it has yielded so far and    *)
(* glog the requests it has sent.                                          *)
(***************************************************************************)
NoTotal == -1
NoGen ==
    [pc |-> "none", owner |-> "none", batch_size |-> 0, window |-> <<NoDay, NoDay>>,
     page |-> 0, total |-> NoTotal, j |-> PageData(<<>>, 1, 1, <<NoDay, NoDay>>),
     i |-> 0, err |-> NoErr]
NewGen(owner, batch_size, w) ==
    [NoGen EXCEPT !.pc = "fetch", !.owner = owner, !.batch_size = batch_size,
                  !.window = w, !.page = 1]

start_index(g) == g.batch_size * (g.page - 1)
end_index(g) == start_index(g) + g.batch_size - 1

GenRaise(g, e) == [g EXCEPT !.pc = "raised", !.err = e]

(* Lines 113-117: the request for the page and its envelope check. *)
FetchPage(g, sess, resp) ==
    IF sess = NoSession THEN GenRaise(g, Err("AttributeError", <<"session">>))
    ELSE IF resp.t = "exc" THEN GenRaise(g, Err("ConnectionError", <<>>))
    ELSE IF coros_raise_or_json(resp).raised # NoErr
    THEN GenRaise(g, coros_raise_or_json(resp).raised)
    ELSE [g EXCEPT !.pc = "loop", !.j = coros_raise_or_json(resp).j.data, !.i = 1]

(* Lines 132-137: after the page's records, the total is recorded or *)
(* compared, and the loop ends or goes on to the next page.          *)
StopEarly(g, total) == end_index(g) + g.batch_size >= total
StopAt(g, total) == end_index(g) >= total
CheckTotal(g) ==
    LET total == IF g.total = NoTotal THEN g.j.count ELSE g.total
    IN IF total # g.j.count
       THEN GenRaise([g EXCEPT !.total = total], Err("AssertionError", <<total, g.j.count>>))
       ELSE IF StopAt(g, total) THEN [g EXCEPT !.total = total, !.pc = "done"]
       ELSE [g EXCEPT !.total = total, !.pc = "fetch", !.page = g.page + 1]

Windows == { <<NoDay, NoDay>>, <<FirstDay.day + 2, NoDay>> }

(* A caller calls list_activities(batch_size, start, end): the generator *)
(* is created; nothing of its body runs before the first next().         *)
ListActivities ==
    /\ up.pc = "idle"
    /\ \E b \in 1..MaxB, w \in Windows :
         gen' = NewGen("caller", b, w)
    /\ yielded' = <<>>
    /\ glog' = <<>>
    /\ snap' = vendor
    /\ stable' = TRUE
    /\ UNCHANGED <<clientVars, sessVars, callVars, vendor, upVars>>

GenFetch ==
    /\ gen.pc = "fetch"
    /\ \E resp \in Responses({PageData(vendor, gen.batch_size, gen.page, gen.window)}) :
         /\ gen' = FetchPage(gen, session, resp)
         /\ glog' = IF session = NoSession THEN glog
                    ELSE Append(glog, Checked("/activity/query", hdr,
                                   <<gen.batch_size, gen.page, gen.window>>, resp))
    /\ UNCHANGED <<clientVars, sessVars, callVars, vendor, yielded, snap, stable, upVars>>

GenYield ==
    /\ gen.pc = "loop"
    /\ gen.owner = "caller"
    /\ gen.i <= Len(gen.j.dataList)
    /\ yielded' = Append(yielded, Normalize(gen.j.dataList[gen.i]))
    /\ gen' = [gen EXCEPT !.i = gen.i + 1]
    /\ UNCHANGED <<clientVars, sessVars, callVars, vendor, glog, snap, stable, upVars>>

GenCheck ==
    /\ gen.pc = "loop"
    /\ gen.i > Len(gen.j.dataList)
    /\ gen' = CheckTotal(gen)
    /\ UNCHANGED <<clientVars, sessVars, callVars, vendor, yielded, glog, snap, stable, upVars>>

(***************************************************************************)
(* The vendor's list changes: an activity appears at its place in the      *)
(* list, or one disappears.                                                *)
(***************************************************************************)
Remove(v, k) == SubSeq(v, 1, k - 1) \o SubSeq(v, k + 1, Len(v))
Range(v) == { v[k] : k \in DOMAIN v }
VendorAdd ==
    /\ \E id \in Ids \ Range(vendor) : vendor' = Newest(Range(vendor) \cup {id})
    /\ stable' = FALSE
    /\ UNCHANGED <<clientVars, sessVars, callVars, gen, yielded, glog, snap, upVars>>
VendorDelete ==
    /\ \E k \in DOMAIN vendor : vendor' = Remove(vendor, k)
    /\ stable' = FALSE
    /\ UNCHANGED <<clientVars, sessVars, callVars, gen, yielded, glog, snap, upVars>>

(***************************************************************************)
(* Transfer operations.  Each takes the session attribute, the accessToken *)
(* header of that session and the vendor's answers, and gives how the call *)
(* ended and the requests it sent.                                         *)
(***************************************************************************)
Done(r, w) == [ret |-> r, wire |-> w]
NoSessionError == Err("AttributeError", <<"session">>)

FileUrl == "https://oss.coros.com/activity-file"
Run == 100
FIT == 4
TCX == 3
UrlDatas == { [fileUrl |-> FileUrl], [fileUrl |-> None] }
FileResponses ==
    { TransportExc,
      HttpResp(500, Body(FALSE, None, None, NoData)),
      HttpResp(200, Body(FALSE, None, None, [content |-> "bytes"])) }

get_download_url(sess, tok, activity_id, sport_type, file_type, r) ==
    LET w == <<Checked("/activity/detail/download", tok,
                       <<activity_id, sport_type, file_type>>, r)>>
    IN IF sess = NoSession THEN Done(Raised("get_download_url", NoSessionError), <<>>)
       ELSE IF r.t = "exc"
       THEN Done(Raised("get_download_url", Err("ConnectionError", <<>>)), w)
       ELSE IF coros_raise_or_json(r).raised # NoErr
       THEN Done(Raised("get_download_url", coros_raise_or_json(r).raised), w)
       ELSE IF coros_raise_or_json(r).j.data.fileUrl = None
       THEN Done(Returned("get_download_url", RetNone), w)
       ELSE Done(Returned("get_download_url", <<coros_raise_or_json(r).j.data.fileUrl>>), w)

(* The accessToken header a request made through the session carries: *)
(* the session's own, whatever the URL.                                *)
SessionHeader(tok) == tok

download_activity(sess, tok, activity_id, sport_type, file_type, r1, r2) ==
    LET u == get_download_url(sess, tok, activity_id, sport_type, file_type, r1)
    IN IF u.ret.raised # NoErr THEN Done(Raised("download_activity", u.ret.raised), u.wire)
       ELSE IF u.ret.value = RetNone
       THEN Done(Raised("download_activity", Err("MissingSchema", <<>>)), u.wire)
       ELSE LET w == Append(u.wire,
                         Req(u.ret.value[1], SessionHeader(tok), <<>>, r2, Unchecked))
            IN IF r2.t = "exc"
               THEN Done(Raised("download_activity", Err("ConnectionError", <<>>)), w)
               ELSE IF raise_for_status(r2) # NoErr
               THEN Done(Raised("download_activity", raise_for_status(r2)), w)
               ELSE Done(Returned("download_activity", <<r2.body.data.content>>), w)

simple_call(op, ep, sess, tok, params, r) ==
    IF sess = NoSession THEN Done(Raised(op, NoSessionError), <<>>)
    ELSE IF r.t = "exc"
    THEN Done(Raised(op, Err("ConnectionError", <<>>)), <<Checked(ep, tok, params, r)>>)
    ELSE IF coros_raise_or_json(r).raised # NoErr
    THEN Done(Raised(op, coros_raise_or_json(r).raised), <<Checked(ep, tok, params, r)>>)
    ELSE Done(Returned(op, RetNone), <<Checked(ep, tok, params, r)>>)

delete_activity(sess, tok, activity_id, r) ==
    simple_call("delete_activity", "/activity/delete", sess, tok, <<activity_id>>, r)

update_activity(sess, tok, activity_id, attrs, r) ==
    simple_call("update_activity", "/activity/update", sess, tok,
                <<attrs, "labelId", activity_id>>, r)

FileTypes == {TCX, FIT}

(* The caller is in no call, follows no generator and has taken the *)
(* result of its last call.                                         *)
NoCall == Returned("none", RetNone)
Idle == up.pc = "idle" /\ gen.pc = "none" /\ ret = NoCall

(* The caller takes the result of the call that ended. *)
Consume ==
    /\ up.pc = "idle"
    /\ ret # NoCall
    /\ gen.owner # "caller" \/ gen.pc = "none"
    /\ ret' = NoCall
    /\ wire' = <<>>
    /\ UNCHANGED <<clientVars, sessVars, vendor, listVars, upVars>>

(* The caller drops its generator (close, or the last reference goes). *)
GenClose ==
    /\ gen.owner = "caller"
    /\ gen.pc # "none"
    /\ gen' = NoGen
    /\ yielded' = <<>>
    /\ glog' = <<>>
    /\ snap' = vendor
    /\ stable' = TRUE
    /\ UNCHANGED <<clientVars, sessVars, callVars, vendor, upVars>>

GetDownloadUrl ==
    /\ Idle
    /\ \E id \in Ids, ft \in FileTypes, r \in Responses(UrlDatas) :
         LET d == get_download_url(session, hdr, id, Run, ft, r)
         IN ret' = d.ret /\ wire' = d.wire
    /\ UNCHANGED <<clientVars, sessVars, vendor, listVars, upVars>>

DownloadActivity ==
    /\ Idle
    /\ \E id \in Ids, ft \in FileTypes, r1 \in Responses(UrlDatas), r2 \in FileResponses :
         LET d == download_activity(session, hdr, id, Run, ft, r1, r2)
         IN ret' = d.ret /\ wire' = d.wire
    /\ UNCHANGED <<clientVars, sessVars, vendor, listVars, upVars>>

(* The vendor drops the activity when it answers the delete with success. *)
DeleteActivity ==
    /\ Idle
    /\ \E id \in Ids, r \in Responses({NoData}) :
         LET d == delete_activity(session, hdr, id, r)
             v == IF d.ret.raised = NoErr THEN SelectSeq(vendor, LAMBDA x : x # id)
                  ELSE vendor
         IN /\ ret' = d.ret
            /\ wire' = d.wire
            /\ vendor' = v
            /\ stable' = (stable /\ v = vendor)
    /\ UNCHANGED <<clientVars, sessVars, gen, yielded, glog, snap, upVars>>

UpdateActivity ==
    /\ Idle
    /\ \E id \in Ids, r \in Responses({NoData}) :
         LET d == update_activity(session, hdr, id, <<"name", "Morning run">>, r)
         IN ret' = d.ret /\ wire' = d.wire
    /\ UNCHANGED <<clientVars, sessVars, vendor, listVars, upVars>>

(***************************************************************************)
(* upload_activity.  A file is its name and what fitparse makes of its     *)
(* bytes: "garbage" does not parse, "nosession" has no session message,    *)
(* "nostart" has a session message without a start_time, "ok" has one,     *)
(* read as wall-clock seconds, naive or aware with an offset in minutes.   *)
(***************************************************************************)
FitFile(kind, wall, aware, utcoffset) ==
    [name |-> "a.fit", kind |-> kind, wall |-> wall, aware |-> aware, utcoffset |-> utcoffset]
Files ==
    { FitFile("garbage", 0, FALSE, 0),
      FitFile("nosession", 0, FALSE, 0),
      FitFile("nostart", 0, FALSE, 0),
      FitFile("ok", Act(2).startTime, FALSE, 0),
      FitFile("ok", Act(1).startTime + 3600, TRUE, 60) }

Gzip(name, bytes) == <<"gzip", name, bytes>>
Timestamp(f) == IF f.aware THEN f.wall - 60 * f.utcoffset ELSE f.wall
Strftime(wall) == FirstDay.day + (wall - FirstDay.ts) \div DaySecs
Abs(x) == IF x < 0 THEN -x ELSE x
DefaultBatch == 100
ActivityUrl(a) == <<"/activity-detail", a.labelId, a.sportType>>

NoUpload == [pc |-> "idle", start_time |-> 0]

(* Lines 159-200: up to the start of the listing.  The result either ends *)
(* the call (listing FALSE) or goes on to the listing.  When the call     *)
(* ends, wire holds every request it sent, the listing's included.        *)
UploadHead(sess, tok, have_fitparse, f, compress, r) ==
    LET fn == IF compress THEN <<f.name, ".gz">> ELSE <<f.name>>
        data == IF compress THEN Gzip(f.name, f) ELSE <<f>>
        w == <<Checked("/activity/fit/import", tok, <<"{}", fn, data>>, r)>>
        end(x, ww) == [listing |-> FALSE, ret |-> x, wire |-> ww]
    IN IF sess = NoSession THEN end(Raised("upload_activity", NoSessionError), <<>>)
       ELSE IF r.t = "exc" THEN end(Raised("upload_activity", Err("ConnectionError", <<>>)), w)
       ELSE IF coros_raise_or_json(r).raised # NoErr
       THEN end(Raised("upload_activity", coros_raise_or_json(r).raised), w)
       ELSE IF ~have_fitparse THEN end(Returned("upload_activity", RetNone), w)
       ELSE IF f.kind \in {"garbage", "nosession"}
       THEN end(Returned("upload_activity", RetNone), w)
       ELSE IF f.kind = "nostart"
       THEN end(Raised("upload_activity", Err("AttributeError", <<"tzinfo">>)), w)
       ELSE [listing |-> TRUE, ret |-> Returned("upload_activity", RetNone), wire |-> w]

UploadCall(f, compress) ==
    /\ \E r \in Responses({NoData}) :
         LET h == UploadHead(session, hdr, fitparse, f, compress, r)
         IN /\ wire' = h.wire
            /\ IF h.listing
               THEN /\ up' = [pc |-> "listing", start_time |-> Timestamp(f)]
                    /\ gen' = NewGen("upload", DefaultBatch,
                                     <<Strftime(f.wall - DaySecs), Strftime(f.wall + DaySecs)>>)
                    /\ yielded' = <<>>
                    /\ glog' = <<>>
                    /\ snap' = vendor
                    /\ stable' = TRUE
                    /\ ret' = [op |-> "upload_activity", raised |-> Err("running", <<>>),
                               value |-> RetNone]
               ELSE /\ ret' = h.ret
                    /\ UNCHANGED <<up, listVars>>
    /\ UNCHANGED <<clientVars, sessVars, vendor, fitparse>>

UploadActivity ==
    /\ Idle
    /\ \E f \in Files, compress \in BOOLEAN : UploadCall(f, compress)
    /\ UNCHANGED cli

(* Lines 205-207: next() over the filtered generator takes the records *)
(* list_activities yields until one starts within a second.            *)
UploadMatch ==
    /\ up.pc = "listing"
    /\ gen.owner = "upload"
    /\ gen.pc = "loop"
    /\ gen.i <= Len(gen.j.dataList)
    /\ LET a == Normalize(gen.j.dataList[gen.i])
       IN /\ IF Abs(a.startTime - up.start_time) < 1
             THEN /\ ret' = Returned("upload_activity", ActivityUrl(a))
                  /\ wire' = wire \o glog
                  /\ up' = NoUpload
                  /\ gen' = NoGen
                  /\ yielded' = <<>>
                  /\ glog' = <<>>
             ELSE /\ gen' = [gen EXCEPT !.i = gen.i + 1]
                  /\ yielded' = Append(yielded, a)
                  /\ UNCHANGED <<ret, wire, up, glog>>
    /\ UNCHANGED <<clientVars, sessVars, vendor, snap, stable, fitparse, cli>>

(* Lines 204-209: the listing ended.  StopIteration is caught and the *)
(* method falls off its end; any other exception leaves the method.   *)
UploadEnd ==
    /\ up.pc = "listing"
    /\ gen.owner = "upload"
    /\ gen.pc \in {"done", "raised"}
    /\ ret' = IF gen.pc = "done" THEN Returned("upload_activity", RetNone)
              ELSE Raised("upload_activity", gen.err)
    /\ wire' = wire \o glog
    /\ up' = NoUpload
    /\ gen' = NoGen
    /\ yielded' = <<>>
    /\ glog' = <<>>
    /\ UNCHANGED <<clientVars, sessVars, vendor, snap, stable, fitparse, cli>>

(***************************************************************************)
(* The command-line tools.  cli is main()'s frame: the tool, its parsed    *)
(* arguments (items: the activity ids or the FIT files; stdout, number,    *)
(* type), where it stands (pc; k is the item the batch loop is at, 0       *)
(* before the loop), one report per item it has finished with, and how it  *)
(* exited ("" while running, "ok", "usage" for p.error, "exception" for an *)
(* exception that left main).                                              *)
(***************************************************************************)
MaxItems == 2

NoCli ==
    [tool |-> "none", pc |-> "end", items |-> <<>>, stdout |-> FALSE, number |-> FALSE,
     type |-> FIT, k |-> 0, report |-> <<>>, exit |-> "", err |-> NoErr]
Report(status, file) == [status |-> status, file |-> file]
Died(c, e) == [c EXCEPT !.pc = "end", !.exit = "exception", !.err = e]
Exit(c, how) == [c EXCEPT !.pc = "end", !.exit = how]
(* The loop goes to its next item, or main returns after the last one. *)
NextItem(c) ==
    IF c.k >= Len(c.items) THEN Exit(c, "ok") ELSE [c EXCEPT !.pc = "item", !.k = c.k + 1]
Reported(c, r) == NextItem([c EXCEPT !.report = Append(c.report, r)])

(* A path that cannot be opened, beside the FIT files. *)
MissingFile == FitFile("missing", 0, FALSE, 0)

(* corosdown line 39 and corosup line 25: connect(), and what main does *)
(* with how it ended.                                                  *)
CliConnect ==
    /\ cli.pc = "connect"
    /\ Connect
    /\ cli' = [cli EXCEPT !.pc = "connected"]
    /\ UNCHANGED <<vendor, listVars, fitparse, up>>

CliConnected ==
    /\ cli.pc = "connected"
    /\ cli' = IF ret.raised # NoErr THEN Died(cli, ret.raised)
              ELSE IF cli.tool = "corosdown" /\ cli.items = <<>>
              THEN [cli EXCEPT !.pc = "latest"]
              ELSE NextItem(cli)
    /\ ret' = NoCall
    /\ wire' = <<>>
    /\ UNCHANGED <<clientVars, sessVars, vendor, listVars, fitparse, up>>

(* corosdown, lines 41-43: next(client.list_activities(batch_size=1)) *)
CliLatest ==
    /\ cli.pc = "latest"
    /\ gen.pc = "none"
    /\ gen' = NewGen("latest", 1, <<NoDay, NoDay>>)
    /\ yielded' = <<>>
    /\ glog' = <<>>
    /\ snap' = vendor
    /\ stable' = TRUE
    /\ UNCHANGED <<clientVars, sessVars, callVars, vendor, upVars>>

(* Lines 46-48: the first record is taken; its _sportType is read. *)
LatestTake ==
    /\ cli.pc = "latest"
    /\ gen.owner = "latest"
    /\ gen.pc = "loop"
    /\ gen.i <= Len(gen.j.dataList)
    /\ LET act == Normalize(gen.j.dataList[gen.i])
       IN /\ yielded' = <<act>>
          /\ cli' = IF "_sportType" \notin DOMAIN act
                    THEN Died(cli, Err("KeyError", <<"_sportType">>))
                    ELSE NextItem([cli EXCEPT !.items = <<act.labelId>>])
    /\ gen' = NoGen
    /\ UNCHANGED <<clientVars, sessVars, callVars, vendor, glog, snap, stable, fitparse, up>>

(* Lines 44-45: StopIteration is p.error; any other exception leaves main. *)
LatestEnd ==
    /\ cli.pc = "latest"
    /\ gen.owner = "latest"
    /\ gen.pc \in {"done", "raised"}
    /\ cli' = IF gen.pc = "done" THEN Exit(cli, "usage") ELSE Died(cli, gen.err)
    /\ gen' = NoGen
    /\ UNCHANGED <<clientVars, sessVars, callVars, vendor, yielded, glog, snap, stable,
                   fitparse, up>>

(***************************************************************************)
(* corosdown, lines 50-80: one turn of the batch loop.  r1 and r2 answer   *)
(* download_activity, rq the detail query that names the file, and fs is   *)
(* what the file system does at open() and write().  The turn keeps        *)
(* nothing of the calls it made but the item's report.                     *)
(***************************************************************************)
DetailDatas == { [summary |-> [name |-> "Morning Run"]], [summary |-> [name |-> ""]] }
Sanitize(name) == IF name = "Morning Run" THEN "Morning_Run" ELSE name
FileName(c, rq) ==
    LET named == /\ ~c.number
                 /\ session # NoSession
                 /\ rq.t = "resp"
                 /\ coros_raise_or_json(rq).raised = NoErr
                 /\ Sanitize(coros_raise_or_json(rq).j.data.summary.name) # ""
    IN IF named THEN <<Sanitize(coros_raise_or_json(rq).j.data.summary.name), c.type>>
       ELSE <<c.items[c.k], c.type>>

(* open() and write() stand outside every try. *)
WriteUncaught(c, fs) == Died(c, Err("OSError", <<fs>>))

DownItem ==
    /\ cli.tool = "corosdown"
    /\ cli.pc = "item"
    /\ \E r1 \in Responses(UrlDatas), r2 \in FileResponses,
          rq \in Responses(DetailDatas), fs \in {"ok", "open", "write"} :
         LET d == download_activity(session, hdr, cli.items[cli.k], Run, cli.type, r1, r2)
         IN cli' = IF d.ret.raised # NoErr
                   THEN Reported(cli, Report("warning", <<>>))
                   ELSE IF cli.stdout
                   THEN IF fs = "write" THEN WriteUncaught(cli, fs)
                        ELSE Reported(cli, Report("wrote", <<"<stdout>">>))
                   ELSE IF fs # "ok" THEN WriteUncaught(cli, fs)
                        ELSE Reported(cli, Report("wrote", FileName(cli, rq)))
    /\ UNCHANGED <<clientVars, sessVars, callVars, vendor, listVars, fitparse, up>>

(***************************************************************************)
(* corosup, lines 26-34: one turn of the batch loop.  The file is opened   *)
(* and upload_activity called; when it has ended, its result is used.      *)
(***************************************************************************)
UpOpenFails ==
    /\ cli.tool = "corosup"
    /\ cli.pc = "item"
    /\ cli.items[cli.k] = MissingFile
    /\ cli' = Died(cli, Err("FileNotFoundError", <<>>))
    /\ UNCHANGED <<clientVars, sessVars, callVars, vendor, listVars, fitparse, up>>

UpItem ==
    /\ cli.tool = "corosup"
    /\ cli.pc = "item"
    /\ cli.items[cli.k] # MissingFile
    /\ UploadCall(cli.items[cli.k], TRUE)
    /\ cli' = [cli EXCEPT !.pc = "uploading"]

UpItemAfter ==
    /\ cli.tool = "corosup"
    /\ cli.pc = "uploading"
    /\ up.pc = "idle"
    /\ cli' = IF ret.raised # NoErr THEN Died(cli, ret.raised)
              ELSE IF ret.value = RetNone
              THEN Reported(cli, Report("uploaded", <<"<couldn't determine URL>">>))
              ELSE Died(cli, Err("TypeError", <<"labelId">>))
    /\ ret' = NoCall
    /\ wire' = <<>>
    /\ UNCHANGED <<clientVars, sessVars, vendor, listVars, fitparse, up>>

(***************************************************************************)
(* Specifications.                                                         *)
(***************************************************************************)
InitLists ==
    /\ up = NoUpload
    /\ gen = NoGen
    /\ yielded = <<>>
    /\ glog = <<>>
    /\ snap = vendor
    /\ stable = TRUE

InitIdle == cli = NoCli /\ InitLists

(* The client right after a first connect() that logged in. *)
Connected ==
    /\ username = "user"
    /\ password = "pw"
    /\ accesstoken = "T1"
    /\ session = 1
    /\ hdr = "T1"
    /\ user_id = "u7"
    /\ nickname = "nick"
    /\ live = {1}
    /\ nsess = 1
    /\ ret = Returned("connect", RetNone)
    /\ wire = <<Checked("/account/login", None, <<"user", Md5Hex("pw"), 2>>,
                        Ok(Account("T1", "user")))>>

InitAuth == InitClient /\ vendor = <<>> /\ fitparse = TRUE /\ InitIdle
NextAuth ==
    \/ Connect /\ UNCHANGED <<vendor, listVars, upVars>>
    \/ Disconnect /\ UNCHANGED <<vendor, listVars, upVars>>
SpecAuth == InitAuth /\ [][NextAuth]_vars

InitList == Connected /\ vendor \in Vendors /\ fitparse = TRUE /\ InitIdle
NextList == ListActivities \/ GenFetch \/ GenYield \/ GenCheck \/ VendorAdd \/ VendorDelete
SpecList == InitList /\ [][NextList]_vars

Reconnect == Idle /\ Connect /\ UNCHANGED <<vendor, listVars, upVars>>
List == Idle /\ ListActivities
InitOps == Connected /\ vendor \in Vendors /\ fitparse \in BOOLEAN /\ InitIdle
NextOps ==
    \/ Consume \/ Reconnect
    \/ GetDownloadUrl \/ DownloadActivity \/ DeleteActivity \/ UpdateActivity
    \/ UploadActivity \/ UploadMatch \/ UploadEnd
    \/ List \/ GenFetch \/ GenYield \/ GenCheck \/ GenClose
SpecOps == InitOps /\ [][NextOps]_vars

(* main() has parsed its arguments, asked for the credentials it lacks and *)
(* constructed the client.                                                 *)
RECURSIVE Seqs(_, _)
Seqs(S, n) == IF n = 0 THEN {<<>>} ELSE Seqs(S, n - 1) \cup { Append(q, x) : q \in Seqs(S, n - 1), x \in S }
InitCLI ==
    /\ InitClient
    /\ accesstoken \in {None, "T0"}
    /\ username \in {None, "user"}
    /\ (username = None) = (password = None)
    /\ accesstoken = None => username # None
    /\ vendor \in Vendors
    /\ fitparse \in BOOLEAN
    /\ InitLists
    /\ ret = Returned("__init__", RetNone)
    /\ \E tool \in {"corosdown", "corosup"} :
         \E items \in Seqs(IF tool = "corosdown" THEN Ids ELSE Files \cup {MissingFile}, MaxItems),
            so \in BOOLEAN, number \in BOOLEAN, type \in FileTypes :
           /\ tool = "corosup" => (items # <<>> /\ ~so /\ ~number /\ type = FIT)
           /\ tool = "corosdown" => fitparse
           /\ so => Len(items) <= 1
           /\ cli = [NoCli EXCEPT !.tool = tool, !.pc = "connect", !.items = items,
                                   !.stdout = so, !.number = number, !.type = type]
NextCLI ==
    \/ CliConnect \/ CliConnected \/ CliLatest \/ LatestTake \/ LatestEnd \/ DownItem
    \/ UpOpenFails \/ UpItem \/ UpItemAfter
    \/ GenFetch \/ GenCheck \/ UploadMatch \/ UploadEnd
SpecCLI == InitCLI /\ [][NextCLI]_vars

(***************************************************************************)
(* Properties.                                                             *)
(***************************************************************************)
Ceil(n, b) == (n + b - 1) \div b
PageOk(e) == e.chk = NoErr
RECURSIVE Served(_, _)
Served(log, n) ==
    IF n = 0 THEN 0
    ELSE Served(log, n - 1)
         + (IF PageOk(log[n]) THEN Len(log[n].resp.body.data.dataList) ELSE 0)
Expected(v, w) == [k \in 1..Len(Matching(v, w)) |-> Normalize(Act(Matching(v, w)[k]))]

(* C1: over an activity list of N records that does not change, a fully    *)
(* consumed list_activities(batch_size=B) has sent exactly ceil(N/B)       *)
(* requests: no page is requested after the one that covers the last       *)
(* record.  The first page is granted to N = 0, where nothing else can     *)
(* tell the total; the claim read to the letter (0 requests) fails there   *)
(* too.                                                                    *)
Max(a, b) == IF a >= b THEN a ELSE b
C1_RequestsAreCeil ==
    (gen.owner = "caller" /\ gen.pc = "done" /\ stable)
        => Len(glog) = Max(1, Ceil(Len(Matching(snap, gen.window)), gen.batch_size))

(* C2: when page k >= 2 reports a total other than page 1's, the consumer  *)
(* has been given the records of pages 1..k-1 and none of page k.          *)
C2_NoRecordOfChangedPage ==
    gen.owner = "caller" =>
        \A k \in 2..Len(glog) :
            (PageOk(glog[1]) /\ PageOk(glog[k])
               /\ glog[k].resp.body.data.count # glog[1].resp.body.data.count)
                => Len(yielded) = Served(glog, k - 1)

(* C8: over an activity list that does not change, what list_activities    *)
(* has yielded is at every moment a prefix of the vendor's records in the  *)
(* vendor's order, and once the generator has returned it is all of them,  *)
(* each exactly once.                                                      *)
C8_YieldsVendorOrder ==
    (gen.owner = "caller" /\ stable) =>
        /\ Len(yielded) <= Len(Expected(snap, gen.window))
        /\ yielded = SubSeq(Expected(snap, gen.window), 1, Len(yielded))
        /\ gen.pc = "done" => yielded = Expected(snap, gen.window)
C8_Witness ==
    /\ gen.owner = "caller" /\ stable /\ gen.pc = "done"
    /\ gen.batch_size = 2 /\ gen.page >= 2 /\ Len(yielded) = 3

(* C3: connect() with a pre-supplied token whose identity query failed,    *)
(* for whatever reason, falls back to the password login: it sends the     *)
(* login when username and password are there, and is authenticated with   *)
(* that login's token when the vendor accepts it; it raises the            *)
(* authentication error when they are not there.                           *)
IdentityFailed ==
    /\ ret.op = "connect"
    /\ Len(wire) >= 1
    /\ wire[1].ep = "/account/query"
    /\ wire[1].chk # NoErr
C3_FallsBackToLogin ==
    IdentityFailed =>
        IF username = None \/ password = None
        THEN ret.raised = AuthError
        ELSE /\ Len(wire) = 2
             /\ wire[2].ep = "/account/login"
             /\ (wire[2].chk = NoErr /\ ret.raised = NoErr)
                   => (hdr = wire[2].resp.body.data.accessToken /\ accesstoken = hdr)

(* C6: a first connect() without a usable token (None, empty, or rejected  *)
(* by the identity query) and without username or password raises the      *)
(* authentication error, sends no login and leaves user_id and nickname    *)
(* unset.                                                                  *)
C6_AuthErrorWithoutCredentials ==
    (/\ ret.op = "connect"
     /\ nsess = 1
     /\ username = None \/ password = None
     /\ wire = <<>> \/ IdentityFailed)
        => /\ ret.raised = AuthError
           /\ \A k \in DOMAIN wire : wire[k].ep # "/account/login"
           /\ user_id = None
           /\ nickname = None

(* C10: whenever disconnect() has returned, every connection context an    *)
(* earlier connect() acquired has been released and the client holds no    *)
(* session.                                                                *)
C10_DisconnectReleasesAll ==
    ret.op = "disconnect" => (live = {} /\ session = NoSession)

(* C4: once the vendor accepted the import, upload_activity does not       *)
(* raise; when the vendor rejected it, upload_activity raises the          *)
(* envelope error.                                                         *)
UploadEnded == ret.op = "upload_activity" /\ up.pc = "idle" /\ Len(wire) >= 1
C4_AcceptedUploadNeverRaises ==
    UploadEnded =>
        /\ wire[1].chk = NoErr => ret.raised = NoErr
        /\ wire[1].chk.type = "RuntimeError" => ret.raised = wire[1].chk

(* C7: the request download_activity sends to the file URL carries no      *)
(* accessToken header, and every request to an API endpoint carries the    *)
(* session's token.                                                        *)
C7_FileFetchWithoutToken ==
    ret.op = "download_activity" =>
        \A k \in DOMAIN wire :
            IF wire[k].ep = FileUrl THEN wire[k].tok = None
            ELSE wire[k].tok = hdr

(* C5: every envelope-checked call that got a successful HTTP status and a *)
(* parsed body raises the API-level error with the vendor's message and    *)
(* result code when result is absent or not "0000", and then has none of   *)
(* its success effects; with result "0000" it raises no API-level error.   *)
(* The identity query's error is raised by the envelope check inside       *)
(* _authenticate, which catches it and goes on to the login.               *)
Parsed(e) == e.chk # Unchecked /\ e.resp.t = "resp" /\ e.resp.status = 200 /\ e.resp.body.json
Rejected(e) == Parsed(e) /\ e.resp.body.result # "0000"
EnvelopeError(e) == ApiError(e.resp.body.message, e.resp.body.result)
IsApiError(x) == x.type = "RuntimeError" /\ Len(x.text) = 3
C5_Envelope ==
    /\ \A k \in DOMAIN wire :
         /\ Rejected(wire[k]) =>
              /\ wire[k].chk = EnvelopeError(wire[k])
              /\ k = Len(wire) \/ wire[k].ep = "/account/query"
              /\ IF wire[k].ep = "/account/query"
                 THEN Len(wire) = 2 \/ ret.raised = AuthError
                 ELSE ret.raised = EnvelopeError(wire[k]) /\ ret.value = RetNone
              /\ wire[k].ep = "/account/login" => accesstoken = None
         /\ (Parsed(wire[k]) /\ ~Rejected(wire[k])) =>
              /\ wire[k].chk = NoErr
              /\ k = Len(wire) => ~IsApiError(ret.raised)
    /\ \A k \in DOMAIN glog :
         /\ Rejected(glog[k]) =>
              /\ glog[k].chk = EnvelopeError(glog[k])
              /\ k = Len(glog)
              /\ gen.pc = "raised" /\ gen.err = EnvelopeError(glog[k])
              /\ Len(yielded) <= Served(glog, k - 1)
         /\ (Parsed(glog[k]) /\ ~Rejected(glog[k])) =>
              /\ glog[k].chk = NoErr
              /\ k = Len(glog) => ~IsApiError(gen.err)
C5_Witness ==
    /\ ret.op = "delete_activity"
    /\ Len(wire) = 1
    /\ Rejected(wire[1])
    /\ wire[1].resp.body.result = None
    /\ ret.raised = ApiError("odd", None)

(* C9: in both tools, a failure while one item of the batch is processed   *)
(* is caught and reported for that item and the items after it are still   *)
(* processed: once the batch loop was entered, main ends normally with one *)
(* report per item.                                                        *)
C9_ItemFailureDoesNotAbortBatch ==
    (cli.pc = "end" /\ cli.k >= 1)
        => (cli.exit = "ok" /\ Len(cli.report) = Len(cli.items))
=============================================================================
